---- MODULE Spec2Model ----
(***************************************************************************)
(* Model of src/app.py: the dashboard script.  One run of the script (a    *)
(* "cycle") is: Refresh button, cached paginated fetch, data cleaning,     *)
(* sidebar filters, date-range filter, the empty-result gate, and the      *)
(* aggregation that feeds the tabs.                                        *)
(*                                                                         *)
(* Cells are tagged records so that values of different Python types can   *)
(* be compared: [k |-> "nan"], [k |-> "str", s |-> <<chars>>],              *)
(* [k |-> "iso", day, sec, ms] (a string holding an ISO timestamp),         *)
(* [k |-> "num", n], [k |-> "time", t] (a parsed Timestamp, in units of     *)
(* half a second since day 0, 00:00:00) and [k |-> "nat"] (NaT).            *)
(***************************************************************************)
EXTENDS Integers, Sequences, FiniteSets, TLC

VARIABLES
    now,          \* wall clock, seconds
    cache,        \* the single entry of st.cache_data for fetch_data
    pc,           \* position of the script run
    pressed,      \* value of the Refresh Data button in this cycle
    url,          \* fetch_data: url
    all_results,  \* fetch_data: all_results
    requested,    \* log of the URLs the running fetch requested (capped)
    served,       \* the rows the upstream served to the running fetch, in
                  \* the order it served them
    cursors,      \* log of the "next" values it served (capped)
    errorSeen,    \* a request of this cycle's fetch errored or was non-2xx
    fresh,        \* fetch_data's body ran to its end in this cycle
    lastOk,       \* when the last successful fetch completed, -1 before it
    invalidated,  \* fetch_data.clear() was called since then
    df,           \* the table fetch_data() returned
    filtered_df,  \* the script's filtered_df
    clean_df,     \* copy of filtered_df as it was after Data Cleaning
    sel,          \* the four selectbox values of this cycle
    start_date,   \* date_input range of this cycle (day numbers)
    end_date,
    time_group,   \* the radio value
    ran,          \* stages executed in this cycle
    fail,         \* the stage an uncaught exception came from, or "none"
    kpi           \* the KPI values computed by the KPIs tab

vars == <<now, cache, pc, pressed, url, all_results, requested, served, cursors,
          errorSeen, fresh, lastOk, invalidated, df, filtered_df, clean_df, sel, start_date, end_date,
          time_group, ran, fail, kpi>>

----------------------------------------------------------------------------
(* Bounds of the model *)

MaxTime == 60
TickSeconds == 30
MaxRows == 2
MaxPageLen == 1

----------------------------------------------------------------------------
(* Program constants *)

TTL == 60
\* pd.Timedelta(days=1) and pd.Timedelta(seconds=1) in half-second units
ONE_DAY == 172800
ONE_SECOND == 2

API_URL == "u0"
NextUrls == {"u1", "u2"}
Urls == {API_URL} \cup NextUrls
\* values of data.get("next"): null/absent, the empty string, or a URL
None == "None"
NextValues == {None, ""} \cup NextUrls

\* the allowed columns (the list cols)
cols ==
    <<"_submission_time", "institution_name", "field_of_study",
      "education_level", "scholarship_frequency",
      "internship_exposure_count", "district_of_residence">>

text_cols ==
    <<"institution_name", "field_of_study", "education_level",
      "district_of_residence">>

----------------------------------------------------------------------------
(* Cells *)

NaN == [k |-> "nan"]
NaT == [k |-> "nat"]
Str(s) == [k |-> "str", s |-> s]
Num(n) == [k |-> "num", n |-> n]
Time(t) == [k |-> "time", t |-> t]
Iso(d, s, ms) == [k |-> "iso", day |-> d, sec |-> s, ms |-> ms]

Range(f) == {f[i] : i \in DOMAIN f}

SetMin(S) == CHOOSE x \in S : \A y \in S : x <= y
SetMax(S) == CHOOSE x \in S : \A y \in S : x >= y

----------------------------------------------------------------------------
(* Text: str(), str.strip(), str.title() over the letters the data uses *)

LowerCase == <<"a", "b", "c", "e", "g", "i", "k", "l", "m", "n", "r", "t", "u", "w">>
UpperCase == <<"A", "B", "C", "E", "G", "I", "K", "L", "M", "N", "R", "T", "U", "W">>
Digits == <<"0", "1", "2", "3", "4", "5", "6", "7", "8", "9">>

IsLower(c) == \E i \in DOMAIN LowerCase : LowerCase[i] = c
IsUpper(c) == \E i \in DOMAIN UpperCase : UpperCase[i] = c
IsCased(c) == IsLower(c) \/ IsUpper(c)
ToUpper(c) ==
    IF IsLower(c)
    THEN UpperCase[CHOOSE i \in DOMAIN LowerCase : LowerCase[i] = c]
    ELSE c
ToLower(c) ==
    IF IsUpper(c)
    THEN LowerCase[CHOOSE i \in DOMAIN UpperCase : UpperCase[i] = c]
    ELSE c

RECURSIVE LStrip(_)
LStrip(s) ==
    IF s # <<>> /\ Head(s) = " " THEN LStrip(Tail(s)) ELSE s

RECURSIVE RStrip(_)
RStrip(s) ==
    IF s # <<>> /\ s[Len(s)] = " " THEN RStrip(SubSeq(s, 1, Len(s) - 1)) ELSE s

Strip(s) == RStrip(LStrip(s))

\* str.title(): a cased character is upper-cased when the character before
\* it is not cased, lower-cased otherwise
Title(s) ==
    [i \in 1..Len(s) |->
        IF i = 1 \/ ~IsCased(s[i - 1]) THEN ToUpper(s[i]) ELSE ToLower(s[i])]

\* Series.astype(str) on one cell of a text column (a string, a number or
\* a missing value)
AsStr(v) ==
    CASE v.k = "str" -> v.s
      [] v.k = "nan" -> <<"n", "a", "n">>
      [] v.k = "num" -> <<Digits[v.n + 1]>>
      [] OTHER -> <<"?">>

ALL == <<"A", "l", "l">>

----------------------------------------------------------------------------
(* The records the upstream API can serve.  Day 0 is a Monday and the first
   day of a month. *)

acme_raw == <<" ", "a", "c", "m", "e", " ", "u", " ">>
acme_u == <<"a", "c", "m", "e", " ", "u">>
beta == <<"b", "e", "t", "a">>

recA ==
    [_id |-> Num(1),
     _submission_time |-> Iso(0, 43200, 0),
     institution_name |-> Str(acme_raw),
     field_of_study |-> Str(<<"l", "a", "w">>),
     district_of_residence |-> Str(<<"k", "i", "g", "a", "l", "i">>),
     internship_exposure_count |-> Str(<<"a", "b", "c">>)]

recB ==
    [_id |-> Num(2),
     _submission_time |-> Iso(2, 86399, 500),
     institution_name |-> Str(beta),
     field_of_study |-> Str(<<"a", "r", "t">>),
     district_of_residence |-> Str(<<"k", "i", "g", "a", "l", "i">>),
     internship_exposure_count |-> Num(2)]

recC ==
    [_id |-> Num(3),
     _submission_time |-> Str(<<"b", "a", "d">>),
     institution_name |-> Str(beta)]

recD ==
    [_id |-> Num(4),
     institution_name |-> Str(acme_u)]

RawRecords == {recA, recB, recC, recD}

RECURSIVE SeqsUpTo(_, _)
SeqsUpTo(S, n) ==
    IF n = 0 THEN {<<>>}
    ELSE LET shorter == SeqsUpTo(S, n - 1)
         IN  shorter \cup {Append(q, x) : q \in {r \in shorter : Len(r) = n - 1}, x \in S}

\* what one GET can come back with: a transport error, a non-2xx status, or
\* a 200 whose JSON body has "results" and "next"
Responses ==
    {[k |-> "neterr"]}
    \cup {[k |-> "http", status |-> st, results |-> <<>>, next |-> None] : st \in {404, 500}}
    \cup {[k |-> "http", status |-> 200, results |-> rs, next |-> nx] :
            rs \in SeqsUpTo(RawRecords, MaxPageLen), nx \in NextValues}

----------------------------------------------------------------------------
(* Tables: [columns |-> set of column names, rows |-> sequence of rows],
   a row being a function from the columns to cells *)

NoTable == [columns |-> {}, rows |-> <<>>]

Table(columns, rows) == [columns |-> columns, rows |-> rows]

\* pd.json_normalize on flat records: the columns are the union of the
\* records' keys, a key a record lacks is NaN
json_normalize(records) ==
    LET columns == UNION {DOMAIN records[i] : i \in DOMAIN records}
    IN  Table(columns,
              [i \in DOMAIN records |->
                  [c \in columns |->
                      IF c \in DOMAIN records[i] THEN records[i][c] ELSE NaN]])

\* an emptiness test that looks at the columns only
EmptyColumnsOnly(t) == t.columns = {}

\* DataFrame.empty: some axis has length 0
Empty(t) == t.columns = {} \/ t.rows = <<>>

\* df[mask]
Mask(t, Keep(_)) == Table(t.columns, SelectSeq(t.rows, Keep))

\* df[col] = f(df[col])
MapColumn(t, c, F(_)) ==
    Table(t.columns, [i \in DOMAIN t.rows |-> [t.rows[i] EXCEPT ![c] = F(@)]])

----------------------------------------------------------------------------
(* fetch_data: one loop iteration's pieces *)

Truthy(u) == u # None /\ u # ""

\* the loop without response.raise_for_status()
RequestRaisesOnTransportOnly(resp) == resp.k = "neterr"

\* requests.get raises on a transport error, raise_for_status on 4xx/5xx
RequestRaises(resp) == resp.k = "neterr" \/ resp.status >= 400

\* all_results.extend with the arguments swapped
ExtendInFront(acc, results) == results \o acc

\* all_results.extend(data.get("results", []))
Extend(acc, results) == acc \o results

\* a log that keeps the first entries only
Logged(log, x) == IF Len(log) <= Cardinality(Urls) THEN Append(log, x) ELSE log

----------------------------------------------------------------------------
(* st.cache_data(ttl=60): a single entry, [table, stored] or NoEntry *)

NoEntry == [stored |-> -1, table |-> NoTable]

\* an entry still served at the age of exactly ttl
CacheValidAtTtl(entry, t) == entry # NoEntry /\ t - entry.stored <= TTL

CacheValid(entry, t) == entry # NoEntry /\ t - entry.stored < TTL

\* a clear() that leaves the entry in place
CacheClearKeeps(entry) == entry

CacheClear(entry) == NoEntry

CacheStore(table, t) == [stored |-> t, table |-> table]

----------------------------------------------------------------------------
(* Data Cleaning *)

\* filtered_df = df[[c for c in cols if c in df.columns]].copy()
SelectColumns(t) ==
    LET keep == Range(cols) \cap t.columns
    IN  Table(keep, [i \in DOMAIN t.rows |-> [c \in keep |-> t.rows[i][c]]])

\* pd.to_datetime on one cell: a missing value is NaT, an ISO string is
\* parsed; any other string is refused (to_datetime_raises).  The ISO
\* strings of the data all carry fractional seconds, so they share one
\* format; the data holds no numeric timestamp.
to_datetime(v) ==
    CASE v.k = "iso" -> Time(v.day * ONE_DAY + v.sec * ONE_SECOND + (v.ms * ONE_SECOND) \div 1000)
      [] v.k = "time" -> v
      [] OTHER -> NaT

\* pd.to_datetime(series) with the default errors="raise"
to_datetime_raises(t) ==
    \E i \in DOMAIN t.rows : t.rows[i]["_submission_time"].k = "str"

\* pd.to_numeric(errors="coerce").fillna(0) on one cell
to_numeric_fill0(v) ==
    CASE v.k = "num" -> v
      [] v.k = "str" /\ Len(v.s) = 1 /\ (\E d \in DOMAIN Digits : Digits[d] = v.s[1]) ->
            Num((CHOOSE d \in DOMAIN Digits : Digits[d] = v.s[1]) - 1)
      [] OTHER -> Num(0)

\* .astype(str).str.strip().str.title() on one cell
clean_text(v) == Str(Title(Strip(AsStr(v))))

RECURSIVE CleanText(_, _)
CleanText(t, cs) ==
    IF cs = <<>> THEN t
    ELSE CleanText(IF Head(cs) \in t.columns THEN MapColumn(t, Head(cs), clean_text) ELSE t,
                   Tail(cs))

\* lines 96-106 when nothing raises
Clean(t) ==
    LET t0 == SelectColumns(t)
        t1 == IF "_submission_time" \in t0.columns
              THEN MapColumn(t0, "_submission_time", to_datetime) ELSE t0
        t2 == IF "internship_exposure_count" \in t1.columns
              THEN MapColumn(t1, "internship_exposure_count", to_numeric_fill0) ELSE t1
    IN  CleanText(t2, text_cols)

CleanRaises(t) ==
    "_submission_time" \in SelectColumns(t).columns /\ to_datetime_raises(t)

----------------------------------------------------------------------------
(* Sidebar filters *)

\* the selectbox options of a column that is present
Options(col_name, t) ==
    {ALL} \cup {t.rows[i][col_name].s : i \in {j \in DOMAIN t.rows : t.rows[j][col_name].k = "str"}}

\* what the user can have selected for a column: without the column there
\* is no selectbox
Choices(col_name, t) ==
    IF col_name \in t.columns THEN Options(col_name, t) ELSE {ALL}

\* filter_col slicing the table up to its last matching row instead of
\* masking it
filter_col_slice(col_name, df_to_filter, s) ==
    IF col_name \in df_to_filter.columns /\ s # ALL
    THEN LET hits == {i \in DOMAIN df_to_filter.rows :
                         df_to_filter.rows[i][col_name] = Str(s)}
         IN  Table(df_to_filter.columns,
                   IF hits = {} THEN <<>>
                   ELSE SubSeq(df_to_filter.rows, 1, SetMax(hits)))
    ELSE df_to_filter

\* filter_col with the selectbox value s
filter_col(col_name, df_to_filter, s) ==
    IF col_name \in df_to_filter.columns /\ s # ALL
    THEN LET Keep(row) == row[col_name] = Str(s)
         IN  Mask(df_to_filter, Keep)
    ELSE df_to_filter

\* the loop over the four columns, with the selections s
RECURSIVE filter_cols(_, _, _)
filter_cols(cs, t, s) ==
    IF cs = <<>> THEN t
    ELSE filter_cols(Tail(cs), filter_col(Head(cs), t, s[Head(cs)]), s)

----------------------------------------------------------------------------
(* Date-range filter *)

\* Timestamp.date(), as a day number
DateOf(t) == t \div ONE_DAY

Times(t) ==
    {t.rows[i]["_submission_time"].t :
        i \in {j \in DOMAIN t.rows : t.rows[j]["_submission_time"].k = "time"}}

\* start = pd.to_datetime(start_date)
RangeStart(sd) == sd * ONE_DAY

\* end = pd.to_datetime(end_date) + Timedelta(days=1) - Timedelta(seconds=1)
RangeEnd(ed) == ed * ONE_DAY + ONE_DAY - ONE_SECOND

\* lines 139-142; a comparison with NaT is False
date_filter(t, sd, ed) ==
    IF "_submission_time" \in t.columns
    THEN LET Keep(row) ==
                 /\ row["_submission_time"].k = "time"
                 /\ row["_submission_time"].t >= RangeStart(sd)
                 /\ row["_submission_time"].t <= RangeEnd(ed)
         IN  Mask(t, Keep)
    ELSE t

----------------------------------------------------------------------------
(* Aggregation *)

\* .dt.to_period("W") / ("M") then start_time, for the days of the first
\* month (day 0 is Monday the 1st)
BucketStart(tg, t) ==
    LET d == DateOf(t)
    IN  IF tg = "Weekly" THEN (d - (d % 7)) * ONE_DAY ELSE (d - (d % 31)) * ONE_DAY

add_time_group(t, tg) ==
    Table(t.columns \cup {"time_group"},
          [i \in DOMAIN t.rows |->
              [c \in t.columns \cup {"time_group"} |->
                  IF c = "time_group"
                  THEN Time(BucketStart(tg, t.rows[i]["_submission_time"].t))
                  ELSE t.rows[i][c]]])

nunique(t, c) == Cardinality({t.rows[i][c] : i \in {j \in DOMAIN t.rows : t.rows[j][c].k # "nan"}})

RECURSIVE SumCells(_)
SumCells(q) == IF q = <<>> THEN 0 ELSE Head(q).n + SumCells(Tail(q))

column_sum(t, c) == SumCells([i \in DOMAIN t.rows |-> t.rows[i][c]])

\* the columns each tab reads without checking that they are there
KpiColumns == {"institution_name", "field_of_study", "district_of_residence"}
DataTabColumns == {"institution_name"}
ChartsColumns == {"time_group", "field_of_study"}

kpis(t) ==
    [total_submissions |-> Len(t.rows),
     unique_institutions |->
        IF "institution_name" \in t.columns THEN nunique(t, "institution_name") ELSE 0,
     total_internships |->
        IF "internship_exposure_count" \in t.columns
        THEN column_sum(t, "internship_exposure_count") ELSE 0,
     unique_districts |->
        IF "district_of_residence" \in t.columns
        THEN nunique(t, "district_of_residence") ELSE 0]

NoKpi ==
    [total_submissions |-> 0, unique_institutions |-> 0,
     total_internships |-> 0, unique_districts |-> 0]

----------------------------------------------------------------------------
(* The script run *)

Rest == {"idle", "done", "no_data", "fetch_error", "crash"}

NoSel == [c \in Range(text_cols) |-> ALL]

Init ==
    /\ now = 0
    /\ cache = NoEntry
    /\ pc = "idle"
    /\ pressed = FALSE
    /\ url = None
    /\ all_results = <<>>
    /\ requested = <<>>
    /\ served = <<>>
    /\ cursors = <<>>
    /\ errorSeen = FALSE
    /\ fresh = FALSE
    /\ lastOk = -1
    /\ invalidated = FALSE
    /\ df = NoTable
    /\ filtered_df = NoTable
    /\ clean_df = NoTable
    /\ sel = NoSel
    /\ start_date = -1
    /\ end_date = -1
    /\ time_group = "Weekly"
    /\ ran = {}
    /\ fail = "none"
    /\ kpi = NoKpi

\* time passes between runs and while requests are in flight
Tick ==
    /\ pc \in Rest \cup {"fetching"}
    /\ now + TickSeconds <= MaxTime
    /\ now' = now + TickSeconds
    /\ UNCHANGED <<cache, pc, pressed, url, all_results, requested, served, cursors,
                   errorSeen, fresh, lastOk, invalidated, df, filtered_df, clean_df, sel, start_date,
                   end_date, time_group, ran, fail, kpi>>

\* lines 71-79: a new run of the script starts; the Refresh button clears
\* the cache, then fetch_data() is called: a valid entry is returned without
\* running the function, otherwise the entry is dropped and the body starts
Rerun(button) ==
    /\ pc \in Rest
    /\ pressed' = button
    /\ LET entry == IF button THEN CacheClear(cache) ELSE cache
       IN  IF CacheValid(entry, now)
           THEN /\ cache' = entry
                /\ df' = entry.table
                /\ pc' = "fetched"
                /\ url' = None
           ELSE /\ cache' = NoEntry
                /\ df' = NoTable
                /\ pc' = "fetching"
                /\ url' = API_URL
    /\ all_results' = <<>>
    /\ requested' = <<>>
    /\ served' = <<>>
    /\ cursors' = <<>>
    /\ errorSeen' = FALSE
    /\ fresh' = FALSE
    /\ invalidated' = (invalidated \/ button)
    /\ filtered_df' = NoTable
    /\ clean_df' = NoTable
    /\ sel' = NoSel
    /\ start_date' = -1
    /\ end_date' = -1
    /\ ran' = {}
    /\ fail' = "none"
    /\ kpi' = NoKpi
    /\ time_group' = "Weekly"
    /\ UNCHANGED <<now, lastOk>>

\* lines 22-27, one iteration: the request either raises, which the
\* try/except of lines 78-82 turns into st.error and st.stop, or its page
\* is appended and its cursor followed
FetchPage(resp) ==
    /\ pc = "fetching"
    /\ Truthy(url)
    /\ (resp.k = "http" /\ resp.status = 200) =>
            Len(all_results) + Len(resp.results) <= MaxRows
    /\ requested' = Logged(requested, url)
    /\ errorSeen' = (errorSeen \/ resp.k = "neterr" \/ resp.status \notin 200..299)
    /\ IF RequestRaises(resp)
       THEN /\ pc' = "fetch_error"
            /\ url' = None
            /\ all_results' = <<>>
            /\ UNCHANGED <<served, cursors>>
       ELSE /\ pc' = pc
            /\ all_results' = Extend(all_results, resp.results)
            /\ url' = resp.next
            /\ served' = served \o resp.results
            /\ cursors' = Logged(cursors, resp.next)
    /\ UNCHANGED <<now, cache, pressed, fresh, lastOk, invalidated, df,
                   filtered_df, clean_df, sel, start_date, end_date,
                   time_group, ran, fail, kpi>>

\* lines 22, 28-29: the loop ends, the table is built, returned and cached
FetchReturn ==
    /\ pc = "fetching"
    /\ ~Truthy(url)
    /\ df' = json_normalize(all_results)
    /\ cache' = CacheStore(df', now)
    /\ pc' = "fetched"
    /\ url' = None
    /\ all_results' = <<>>
    /\ fresh' = TRUE
    /\ lastOk' = now
    /\ invalidated' = FALSE
    /\ UNCHANGED <<now, pressed, requested, served, cursors, errorSeen,
                   filtered_df,
                   clean_df, sel, start_date, end_date, time_group, ran,
                   fail, kpi>>

\* lines 96-106
CleanStep ==
    /\ pc = "fetched"
    /\ ran' = ran \cup {"normalize"}
    /\ IF CleanRaises(df)
       THEN /\ pc' = "crash"
            /\ fail' = "normalize"
            /\ UNCHANGED <<filtered_df, clean_df>>
       ELSE /\ pc' = "cleaned"
            /\ filtered_df' = Clean(df)
            /\ clean_df' = filtered_df'
            /\ fail' = fail
    /\ requested' = <<>>
    /\ served' = <<>>
    /\ cursors' = <<>>
    /\ UNCHANGED <<now, cache, pressed, url, all_results, errorSeen, fresh,
                   lastOk, invalidated, df, sel, start_date, end_date,
                   time_group, kpi>>

\* lines 112-121: each selectbox offers the values of the table as filtered
\* so far
FilterStep ==
    /\ pc = "cleaned"
    /\ \E s1 \in Choices(text_cols[1], filtered_df) :
         LET t1 == filter_col(text_cols[1], filtered_df, s1) IN
         \E s2 \in Choices(text_cols[2], t1) :
           LET t2 == filter_col(text_cols[2], t1, s2) IN
           \E s3 \in Choices(text_cols[3], t2) :
             LET t3 == filter_col(text_cols[3], t2, s3) IN
             \E s4 \in Choices(text_cols[4], t3) :
               /\ sel' = [c \in Range(text_cols) |->
                            CASE c = text_cols[1] -> s1
                              [] c = text_cols[2] -> s2
                              [] c = text_cols[3] -> s3
                              [] OTHER -> s4]
               /\ filtered_df' = filter_col(text_cols[4], t3, s4)
    /\ ran' = ran \cup {"filter"}
    /\ pc' = "filtered"
    /\ UNCHANGED <<now, cache, pressed, url, all_results, requested, served, cursors,
                   errorSeen, fresh, lastOk, invalidated, df, clean_df, start_date, end_date, time_group,
                   fail, kpi>>

\* lines 125-142.  The date_input offers the days from min_date to max_date;
\* a range picked half-way is a 1-tuple, which the unpacking of line 130
\* refuses.  When every timestamp is NaT so are min_date and max_date: the
\* widget then either raises or yields some range, which keeps no row.
DateStep ==
    /\ pc = "filtered"
    /\ time_group' \in {"Weekly", "Monthly"}
    /\ ran' = ran \cup {"date_range"}
    /\ IF "_submission_time" \in filtered_df.columns
       THEN LET times == Times(filtered_df)
                min_date == IF times = {} THEN 0 ELSE DateOf(SetMin(times))
                max_date == IF times = {} THEN 0 ELSE DateOf(SetMax(times))
            IN  \/ /\ \E sd \in min_date..max_date, ed \in min_date..max_date :
                        /\ sd <= ed
                        /\ start_date' = sd
                        /\ end_date' = ed
                        /\ filtered_df' = date_filter(filtered_df, sd, ed)
                   /\ pc' = "ranged"
                   /\ fail' = fail
                \/ /\ pc' = "crash"
                   /\ fail' = "date_input"
                   /\ UNCHANGED <<filtered_df, start_date, end_date>>
       ELSE /\ pc' = "ranged"
            /\ UNCHANGED <<filtered_df, start_date, end_date, fail>>
    /\ UNCHANGED <<now, cache, pressed, url, all_results, requested, served, cursors,
                   errorSeen, fresh, lastOk, invalidated, df, clean_df, sel, kpi>>

\* lines 144-146
GateStep ==
    /\ pc = "ranged"
    /\ ran' = ran \cup {"gate"}
    /\ pc' = IF Empty(filtered_df) THEN "no_data" ELSE "gated"
    /\ UNCHANGED <<now, cache, pressed, url, all_results, requested, served, cursors,
                   errorSeen, fresh, lastOk, invalidated, df, filtered_df, clean_df, sel, start_date,
                   end_date, time_group, fail, kpi>>

\* lines 151-154: filtered_df["_submission_time"] is a KeyError without the
\* column
TimeGroupStep ==
    /\ pc = "gated"
    /\ ran' = ran \cup {"aggregate"}
    /\ IF "_submission_time" \in filtered_df.columns
       THEN /\ filtered_df' = add_time_group(filtered_df, time_group)
            /\ pc' = "bucketed"
            /\ fail' = fail
       ELSE /\ pc' = "crash"
            /\ fail' = "aggregate"
            /\ filtered_df' = filtered_df
    /\ UNCHANGED <<now, cache, pressed, url, all_results, requested, served, cursors,
                   errorSeen, fresh, lastOk, invalidated, df, clean_df, sel, start_date, end_date,
                   time_group, kpi>>

\* lines 164-188
KpisTab ==
    /\ pc = "bucketed"
    /\ IF KpiColumns \subseteq filtered_df.columns
       THEN /\ kpi' = kpis(filtered_df)
            /\ pc' = "kpis"
            /\ fail' = fail
       ELSE /\ pc' = "crash"
            /\ fail' = "aggregate"
            /\ kpi' = kpi
    /\ UNCHANGED <<now, cache, pressed, url, all_results, requested, served, cursors,
                   errorSeen, fresh, lastOk, invalidated, df, filtered_df, clean_df, sel, start_date,
                   end_date, time_group, ran>>

\* lines 193-220
DataTab ==
    /\ pc = "kpis"
    /\ IF DataTabColumns \subseteq filtered_df.columns
       THEN /\ pc' = "table"
            /\ fail' = fail
       ELSE /\ pc' = "crash"
            /\ fail' = "aggregate"
    /\ UNCHANGED <<now, cache, pressed, url, all_results, requested, served, cursors,
                   errorSeen, fresh, lastOk, invalidated, df, filtered_df, clean_df, sel, start_date,
                   end_date, time_group, ran, kpi>>

\* lines 225-277; line 260 makes scholarship_frequency numeric
ChartsTab ==
    /\ pc = "table"
    /\ IF ChartsColumns \subseteq filtered_df.columns
       THEN /\ pc' = "done"
            /\ fail' = fail
            /\ filtered_df' =
                 IF {"institution_name", "scholarship_frequency"} \subseteq filtered_df.columns
                 THEN MapColumn(filtered_df, "scholarship_frequency", to_numeric_fill0)
                 ELSE filtered_df
       ELSE /\ pc' = "crash"
            /\ fail' = "aggregate"
            /\ filtered_df' = filtered_df
    /\ UNCHANGED <<now, cache, pressed, url, all_results, requested, served, cursors,
                   errorSeen, fresh, lastOk, invalidated, df, clean_df, sel, start_date, end_date,
                   time_group, ran, kpi>>

Next ==
    \/ Tick
    \/ \E button \in BOOLEAN : Rerun(button)
    \/ \E resp \in Responses : FetchPage(resp)
    \/ FetchReturn
    \/ CleanStep
    \/ FilterStep
    \/ DateStep
    \/ GateStep
    \/ TimeGroupStep
    \/ KpisTab
    \/ DataTab
    \/ ChartsTab

Spec == Init /\ [][Next]_vars

\* the pagination loop alone, from the first call of fetch_data(); a
\* request that was issued is answered and a loop that can go on does
InitLoop ==
    /\ now = 0
    /\ cache = NoEntry
    /\ pc = "fetching"
    /\ pressed = FALSE
    /\ url = API_URL
    /\ all_results = <<>>
    /\ requested = <<>>
    /\ served = <<>>
    /\ cursors = <<>>
    /\ errorSeen = FALSE
    /\ fresh = FALSE
    /\ lastOk = -1
    /\ invalidated = FALSE
    /\ df = NoTable
    /\ filtered_df = NoTable
    /\ clean_df = NoTable
    /\ sel = NoSel
    /\ start_date = -1
    /\ end_date = -1
    /\ time_group = "Weekly"
    /\ ran = {}
    /\ fail = "none"
    /\ kpi = NoKpi

NextLoop ==
    \/ \E resp \in Responses : FetchPage(resp)
    \/ FetchReturn

LoopSpec == InitLoop /\ [][NextLoop]_vars /\ WF_vars(NextLoop)

----------------------------------------------------------------------------
(* Properties *)

NoDuplicates(q) == \A i, j \in DOMAIN q : i # j => q[i] # q[j]

\* the upstream served a finite chain of pages: every cursor but the last
\* names a page not served before, the last is null or empty
WellFormedChain ==
    /\ cursors # <<>>
    /\ Len(cursors) <= Cardinality(Urls)
    /\ \A i \in 1..(Len(cursors) - 1) : Truthy(cursors[i])
    /\ ~Truthy(cursors[Len(cursors)])
    /\ NoDuplicates(<<API_URL>> \o cursors)

FetchErrorIsFatal ==
    /\ errorSeen =>
          /\ pc = "fetch_error"
          /\ df = NoTable
          /\ filtered_df = NoTable
          /\ cache = NoEntry
          /\ ~fresh
          /\ ran = {}
    /\ pc = "fetch_error" => errorSeen

LaterPageFailed ==
    /\ pc = "fetch_error"
    /\ Len(requested) >= 2
    /\ served # <<>>

\* C3: the call of fetch_data() returns the memoized table without an
\* upstream request exactly when the last successful fetch completed less
\* than TTL seconds ago and clear() was not called since; otherwise the
\* fetcher starts.  A fetch that returns stores its table with the time of
\* its completion, a fetch that fails stores nothing, and nothing else
\* writes the cache.
CacheContract ==
    [][
        /\ (pc \in Rest /\ pc' \notin Rest) =>
              IF lastOk >= 0 /\ now - lastOk < TTL /\ ~invalidated'
              THEN /\ pc' = "fetched"
                   /\ ~fresh'
                   /\ requested' = <<>>
                   /\ df' = cache.table
                   /\ cache' = cache
                   /\ cache.stored = lastOk
              ELSE /\ pc' = "fetching"
                   /\ url' = API_URL
                   /\ requested' = <<>>
        /\ (pc = "fetching" /\ pc' = "fetched") =>
              /\ cache' = [stored |-> now', table |-> df']
              /\ lastOk' = now'
        /\ (pc = "fetching" /\ pc' = "fetch_error") =>
              /\ cache' = NoEntry
              /\ lastOk' = lastOk
        /\ pc \notin (Rest \cup {"fetching"}) => cache' = cache
    ]_vars

CacheHitOnAgedEntry ==
    /\ pc = "fetched"
    /\ ~fresh
    /\ ~pressed
    /\ now > cache.stored
    /\ df.rows # <<>>

\* C4: in a cycle in which Refresh Data was pressed the table in use was
\* fetched from upstream in that same cycle, however young the previously
\* memoized entry was.
RefreshRefetches ==
    pressed => (pc \in {"fetching", "fetch_error"} \/ fresh)

\* a refetch under way though the last fetch completed less than TTL ago
RefreshedYoungEntry ==
    /\ pressed
    /\ pc = "fetching"
    /\ requested # <<>>
    /\ lastOk >= 0
    /\ now - lastOk < TTL

\* the table has no data
IsEmptyTable(t) == t.rows = <<>> \/ t.columns = {}

AggregationStages == {"gated", "bucketed", "kpis", "table", "done"}

\* C5: no aggregation step runs on an empty filtered table: past the gate
\* the table is not empty, and once the gate has seen an empty table the
\* cycle is in the no-data state, which is neither the fetch-error state nor
\* a crash nor a completed cycle.
EmptyResultGate ==
    /\ (pc \in AggregationStages \/ "aggregate" \in ran) => ~IsEmptyTable(filtered_df)
    /\ ("gate" \in ran /\ IsEmptyTable(filtered_df)) => pc = "no_data"
    /\ pc = "no_data" =>
          /\ IsEmptyTable(filtered_df)
          /\ "gate" \in ran
          /\ "aggregate" \notin ran
          /\ fail = "none"
          /\ ~errorSeen

\* the chosen days hold no submission of a table that has some
FiltersLeftNothing ==
    /\ pc = "no_data"
    /\ clean_df.rows # <<>>
    /\ start_date >= 0
    /\ \A i \in DOMAIN clean_df.rows :
          /\ clean_df.rows[i]["_submission_time"].k = "time"
          /\ \/ DateOf(clean_df.rows[i]["_submission_time"].t) < start_date
             \/ DateOf(clean_df.rows[i]["_submission_time"].t) > end_date
    /\ kpi = NoKpi

\* C6: Data Cleaning never raises.
NormalizationIsTotal == fail # "normalize"

\* C7: after the date-range filter the table holds exactly the rows of the
\* categorically filtered table whose timestamp falls on a day from
\* start_date to end_date, the whole of the end day included.
DateRangeCoversEndDay ==
    (pc = "ranged" /\ start_date >= 0) =>
        LET OnChosenDays(row) ==
                /\ row["_submission_time"].k = "time"
                /\ DateOf(row["_submission_time"].t) >= start_date
                /\ DateOf(row["_submission_time"].t) <= end_date
        IN  filtered_df.rows =
                SelectSeq(filter_cols(text_cols, clean_df, sel).rows, OnChosenDays)

\* the five filters of a cycle, by number: the four selectboxes, then the
\* date range
ApplyFilter(f, t) ==
    IF f <= Len(text_cols)
    THEN filter_col(text_cols[f], t, sel[text_cols[f]])
    ELSE IF start_date >= 0 THEN date_filter(t, start_date, end_date) ELSE t

RECURSIVE ApplyInOrder(_, _, _)
ApplyInOrder(order, n, t) ==
    IF n = 0 THEN t ELSE ApplyFilter(order[n], ApplyInOrder(order, n - 1, t))

FilterCount == Len(text_cols) + 1

\* C8: with the selections of the cycle, applying the five filters to the
\* cleaned table in any order gives the table the script's order gives,
\* and a selectbox left on "All" changes nothing.
FiltersCommute ==
    pc = "ranged" =>
        /\ \A order \in Permutations(1..FilterCount) :
              ApplyInOrder(order, FilterCount, clean_df) = filtered_df
        /\ \A f \in 1..Len(text_cols) :
              sel[text_cols[f]] = ALL => ApplyFilter(f, clean_df) = clean_df

TwoFiltersAndRange ==
    /\ pc = "ranged"
    /\ sel["institution_name"] # ALL
    /\ sel["field_of_study"] # ALL
    /\ start_date >= 0
    /\ filtered_df.rows # <<>>
    /\ Len(filtered_df.rows) < Len(clean_df.rows)

\* C9: no aggregation step raises.
AggregationNeverFails == fail # "aggregate"

\* C10: a fetch comes to an end.
FetchTerminates == <>(pc # "fetching")

====
